---------------------------- MODULE Spec2Model ----------------------------
(***************************************************************************)
(* A model of the circular write-ahead log: entry framing, append with     *)
(* wrap-around, the two-phase recovery scan of open, and the recovery      *)
(* iterator, over a device that performs submitted writes in order.        *)
(*                                                                         *)
(* The device file is a byte string kept in run-length form: a sequence of *)
(* runs [n |-> count, b |-> byte].  A byte is a record [v, c, i]: a plain  *)
(* byte has v in 0..255; the i-th byte of a stored CRC-32 is kept opaque   *)
(* as [v |-> -1, c |-> <the bytes the CRC covers>, i |-> i].  CRC-32 is a  *)
(* library function (crc32fast); it is modelled as collision free: two     *)
(* CRCs are equal exactly when they cover the same bytes, and the CRC of   *)
(* an entry is never 0.                                                    *)
(***************************************************************************)
EXTENDS Integers, Sequences, FiniteSets, TLC

\* common.rs: BLOCK_SIZE
BLOCK_SIZE == 4096
\* wal.rs: HEADER_SIZE = size_of::<EntryHeader>() (three packed u32)
HEADER_SIZE == 12

(***************************************************************************)
(* Bounds of the model.                                                    *)
(***************************************************************************)
\* capacities of the ring, in blocks: 1..MaxCapacity
MaxCapacity == 2
\* appends stop wrapping once the rollover counter reaches this value
MaxRollover == 2
\* submitted writes not yet performed by the device
MaxInflight == 2
\* items kept from the recovery iterator
MaxYield == 4
\* calls of open in one run
MaxOpens == 2
\* appends in one run that do not return a position
MaxRejects == 1
\* calls of truncate in one run
MaxTruncs == 1
\* calls of append in one run over a device
MaxAppends == 2
\* calls of process_completions in one run
MaxDrains == 2
\* events off the normal path in one run over a device: writes the device
\* does not take, writes that fail, data-syncs that fail, writes the kernel
\* carries out ahead of an older submission
MaxFaults == 1

(***************************************************************************)
(* Byte strings in run-length form.                                        *)
(***************************************************************************)
Plain(v) == [v |-> v, c |-> <<>>, i |-> 0]

Run(n, b) == IF n > 0 THEN << [n |-> n, b |-> b] >> ELSE << >>

Zeros(n) == Run(n, Plain(0))

RECURSIVE ByteLen(_)
ByteLen(r) == IF r = << >> THEN 0 ELSE Head(r).n + ByteLen(Tail(r))

\* concatenation, merging the two runs that meet when they hold the same byte
Cat(a, b) ==
    IF a = << >> THEN b
    ELSE IF b = << >> THEN a
    ELSE IF a[Len(a)].b = b[1].b
         THEN SubSeq(a, 1, Len(a) - 1)
              \o << [n |-> a[Len(a)].n + b[1].n, b |-> b[1].b] >>
              \o Tail(b)
         ELSE a \o b

RECURSIVE TakeBytes(_, _)
TakeBytes(r, k) ==
    IF k <= 0 \/ r = << >> THEN << >>
    ELSE IF Head(r).n >= k THEN Run(k, Head(r).b)
    ELSE << Head(r) >> \o TakeBytes(Tail(r), k - Head(r).n)

RECURSIVE DropBytes(_, _)
DropBytes(r, k) ==
    IF r = << >> THEN << >>
    ELSE IF k <= 0 THEN r
    ELSE IF Head(r).n > k THEN << [n |-> Head(r).n - k, b |-> Head(r).b] >> \o Tail(r)
    ELSE DropBytes(Tail(r), k - Head(r).n)

\* bytes [start, start + count) of r
Slice(r, start, count) == TakeBytes(DropBytes(r, start), count)

\* r with the bytes from start on replaced by data
Splice(r, start, data) ==
    Cat(TakeBytes(r, start), Cat(data, DropBytes(r, start + ByteLen(data))))

ByteAt(r, k) == Slice(r, k, 1)[1].b


(***************************************************************************)
(* Positions (common.rs).                                                  *)
(***************************************************************************)
Pos(rollover, offset) == [rollover |-> rollover, offset |-> offset]

\* WalPosition::byte_offset
byte_offset(p) == p.offset * BLOCK_SIZE

\* impl PartialOrd for WalPosition: lexicographic on (rollover, offset)
PosLess(a, b) ==
    \/ a.rollover < b.rollover
    \/ a.rollover = b.rollover /\ a.offset < b.offset

PosGeq(a, b) == ~PosLess(a, b)

(***************************************************************************)
(* Entry framing (wal.rs).                                                 *)
(***************************************************************************)
\* AlignedSlice::new: the block count of a buffer of raw_size bytes
AlignedBlocks(raw_size) == (raw_size + BLOCK_SIZE - 1) \div BLOCK_SIZE

\* EntryHeader::num_blocks
num_blocks(len) == (HEADER_SIZE + len + BLOCK_SIZE - 1) \div BLOCK_SIZE

\* the four little-endian bytes of a u32 (IntoBytes on a packed header)
U32Bytes(x) ==
    Cat(Run(1, Plain(x % 256)),
    Cat(Run(1, Plain((x \div 256) % 256)),
    Cat(Run(1, Plain((x \div 65536) % 256)),
        Run(1, Plain((x \div 16777216) % 256)))))

\* a CRC-32 value: raw = -1 is the CRC of the bytes "of"
CrcOf(covered) == [raw |-> -1, of |-> covered]

ZeroCrc == [raw |-> 0, of |-> << >>]

\* the four bytes that store the CRC of the bytes covered
CrcBytes(covered) ==
    << [n |-> 1, b |-> [v |-> -1, c |-> covered, i |-> 0]],
       [n |-> 1, b |-> [v |-> -1, c |-> covered, i |-> 1]],
       [n |-> 1, b |-> [v |-> -1, c |-> covered, i |-> 2]],
       [n |-> 1, b |-> [v |-> -1, c |-> covered, i |-> 3]] >>

\* the bytes EntryHeader::compute_crc hashes: buffer[4 .. HEADER_SIZE + len)
Covered(len, buffer) == Slice(buffer, 4, HEADER_SIZE + len - 4)

\* EntryHeader::compute_crc
compute_crc(len, buffer) == CrcOf(Covered(len, buffer))

\* TLC's integers are 32-bit signed.  A u32 of 2^30 or more is kept as
\* 2^30: as a length it reaches past the end of every device of the model,
\* as a rollover it is above every rollover append writes
Huge == 64 * 16777216

\* the u32 of four little-endian bytes; -1 when one of them is a CRC byte
U32Of(b0, b1, b2, b3) ==
    IF b0.v < 0 \/ b1.v < 0 \/ b2.v < 0 \/ b3.v < 0 THEN -1
    ELSE IF b3.v >= 64 THEN Huge
    ELSE b0.v + 256 * b1.v + 65536 * b2.v + 16777216 * b3.v

\* a u32 field read at byte k (FromBytes)
DecodeU32(r, k) ==
    U32Of(ByteAt(r, k), ByteAt(r, k + 1), ByteAt(r, k + 2), ByteAt(r, k + 3))

\* the crc of four bytes: the CRC whose four bytes they are, 0, or another
\* value (raw = -2, told apart by its bytes)
CrcValueOf(b0, b1, b2, b3) ==
    IF /\ b0.v < 0 /\ b1.v < 0 /\ b2.v < 0 /\ b3.v < 0
       /\ b0.i = 0 /\ b1.i = 1 /\ b2.i = 2 /\ b3.i = 3
       /\ b1.c = b0.c /\ b2.c = b0.c /\ b3.c = b0.c
    THEN CrcOf(b0.c)
    ELSE IF b0.v = 0 /\ b1.v = 0 /\ b2.v = 0 /\ b3.v = 0
    THEN ZeroCrc
    ELSE [raw |-> -2, of |-> << b0, b1, b2, b3 >>]

\* the crc field read at byte k
DecodeCrc(r, k) ==
    CrcValueOf(ByteAt(r, k), ByteAt(r, k + 1), ByteAt(r, k + 2), ByteAt(r, k + 3))

\* EntryHeader::read_from_bytes on the 12 bytes at byte k of r
ReadHeader(r, k) ==
    [crc |-> DecodeCrc(r, k),
     rollover |-> DecodeU32(r, k + 4),
     len |-> DecodeU32(r, k + 8)]

\* the buffer of append before the CRC is filled in: crc = 0, rollover,
\* len, the payload, and the zero padding of the aligned allocation
Unsealed(data, rollover, len) ==
    Cat(Zeros(4),
    Cat(U32Bytes(rollover),
    Cat(U32Bytes(len),
    Cat(data,
        Zeros(AlignedBlocks(len + HEADER_SIZE) * BLOCK_SIZE - HEADER_SIZE - len)))))

\* the header re-copied with the CRC of the buffer
Seal(len, buffer) == Cat(CrcBytes(Covered(len, buffer)), DropBytes(buffer, 4))

\* the buffer append hands to the device
EncodeEntry(data, rollover) ==
    Seal(ByteLen(data), Unsealed(data, rollover, ByteLen(data)))

\* File::seek + read_exact of count bytes at byte start succeeds
CanRead(file, start, count) == count = 0 \/ start + count <= ByteLen(file)

\* a head scan that advances the offset and keeps the rollover it began with
HeadStepEntry_KeepRollover(capacity, head, header, crc) ==
    IF crc # header.crc THEN [k |-> "break", head |-> head]
    ELSE IF header.rollover < head.rollover THEN [k |-> "break", head |-> head]
    ELSE IF head.offset + num_blocks(header.len) >= capacity
    THEN [k |-> "break", head |-> head]
    ELSE [k |-> "next", head |-> Pos(head.rollover, head.offset + num_blocks(header.len))]

(***************************************************************************)
(* Recovery (Wal::open).  Each scan returns [err, ...]: err is TRUE when   *)
(* a seek/read_exact of open fails and open returns that error.            *)
(***************************************************************************)
\* phase A, after the CRC is computed: the three remaining tests
HeadStepEntry(capacity, head, header, crc) ==
    IF crc # header.crc THEN [k |-> "break", head |-> head]
    ELSE IF header.rollover < head.rollover THEN [k |-> "break", head |-> head]
    ELSE IF head.offset + num_blocks(header.len) >= capacity
    THEN [k |-> "break", head |-> head]
    ELSE [k |-> "next", head |-> Pos(header.rollover, head.offset + num_blocks(header.len))]

\* phase A, after the header is read
HeadStepHeader(file, capacity, head, header) ==
    IF header.len = 0 THEN [k |-> "break", head |-> head]
    ELSE IF ~CanRead(file, byte_offset(head), HEADER_SIZE + header.len)
    THEN [k |-> "io", head |-> head]
    ELSE HeadStepEntry(capacity, head, header,
            compute_crc(header.len,
                        Slice(file, byte_offset(head), HEADER_SIZE + header.len)))

\* one turn of the phase A loop at head: "io" (a read failed), "break", or
\* "next" with the head the loop continues from
HeadStep(file, capacity, head) ==
    IF ~CanRead(file, byte_offset(head), BLOCK_SIZE) THEN [k |-> "io", head |-> head]
    ELSE HeadStepHeader(file, capacity, head, ReadHeader(file, byte_offset(head)))

\* phase A: follow entries from the start of the file
RECURSIVE ScanHead(_, _, _)
ScanHeadFrom(file, capacity, s) ==
    IF s.k = "io" THEN [err |-> TRUE, head |-> s.head]
    ELSE IF s.k = "break" THEN [err |-> FALSE, head |-> s.head]
    ELSE ScanHead(file, capacity, s.head)

ScanHead(file, capacity, head) ==
    ScanHeadFrom(file, capacity, HeadStep(file, capacity, head))

\* phase B, after the header is read at byte offset `offset`; the entry is
\* read at head.byte_offset()
TailStepHeader(file, head, tail, header) ==
    IF header.rollover # tail.rollover THEN "continue"
    ELSE IF ~CanRead(file, byte_offset(head), HEADER_SIZE + header.len) THEN "io"
    ELSE IF compute_crc(header.len,
                        Slice(file, byte_offset(head), HEADER_SIZE + header.len))
            # header.crc
    THEN "continue"
    ELSE "found"

\* one turn of the phase B loop for the loop variable offset, which the
\* seek takes as a byte offset: "io", "continue", or "found"
TailStep(file, head, tail, offset) ==
    IF ~CanRead(file, offset, BLOCK_SIZE) THEN "io"
    ELSE TailStepHeader(file, head, tail, ReadHeader(file, offset))

\* phase B: for offset in (tail.offset..capacity).step_by(BLOCK_SIZE)
RECURSIVE ScanTail(_, _, _, _, _)
ScanTailFrom(file, capacity, head, tail, offset, s) ==
    IF s = "io" THEN [err |-> TRUE, tail |-> tail]
    ELSE IF s = "found" THEN [err |-> FALSE, tail |-> Pos(tail.rollover, offset)]
    ELSE ScanTail(file, capacity, head, tail, offset + BLOCK_SIZE)

ScanTail(file, capacity, head, tail, offset) ==
    IF offset >= capacity THEN [err |-> FALSE, tail |-> tail]
    ELSE ScanTailFrom(file, capacity, head, tail, offset,
                      TailStep(file, head, tail, offset))

\* a tail scan that starts from "the 0 entry at the previous generation"
RecoverTail_FromZero(file, capacity, head) ==
    ScanTail(file, capacity, head, Pos(head.rollover - 1, 0), 0)

\* the initial tail of phase B and its scan
RecoverTail(file, capacity, head) ==
    ScanTail(file, capacity, head, Pos(head.rollover - 1, head.offset), head.offset)

RecoverFrom(file, capacity, a, b) ==
    IF a.err THEN [err |-> TRUE, head |-> Pos(0, 0), tail |-> Pos(0, 0)]
    ELSE IF a.head.rollover > 0 THEN [err |-> b.err, head |-> a.head, tail |-> b.tail]
    ELSE [err |-> FALSE, head |-> a.head, tail |-> Pos(0, 0)]

RecoverHead(file, capacity, a) ==
    RecoverFrom(file, capacity, a,
                IF ~a.err /\ a.head.rollover > 0
                THEN RecoverTail(file, capacity, a.head)
                ELSE [err |-> FALSE, tail |-> Pos(0, 0)])

\* the head and tail open recovers from the file
Recover(file, capacity) ==
    RecoverHead(file, capacity, ScanHead(file, capacity, Pos(0, 0)))

(***************************************************************************)
(* WalIterator::next on an iterator [current, end] over the file: the      *)
(* iterator after the call and the item returned.                          *)
(***************************************************************************)
NoneItem == [k |-> "none", pos |-> Pos(0, 0), data |-> << >>]
ErrItem == [k |-> "err", pos |-> Pos(0, 0), data |-> << >>]
OkItem(pos, data) == [k |-> "ok", pos |-> pos, data |-> data]

\* "Calculate next position"
NextCurrent(capacity, current, header) ==
    IF current.offset + num_blocks(header.len) >= capacity
    THEN Pos(header.rollover + 1, 0)
    ELSE Pos(header.rollover, current.offset + num_blocks(header.len))

\* the CRC test of next: an InvalidData item
CrcMismatch(header, crc) ==
    header.len # 0 /\ header.crc # ZeroCrc /\ crc # header.crc

\* next, after the entry is read into buffer
IterNextEntry(capacity, it, header, buffer) ==
    IF CrcMismatch(header, compute_crc(header.len, buffer))
    THEN [it |-> it, item |-> ErrItem]
    ELSE [it |-> [it EXCEPT !.current = NextCurrent(capacity, it.current, header)],
          item |-> OkItem(Pos(header.rollover, it.current.offset),
                          Slice(buffer, HEADER_SIZE, header.len))]

\* next, after the header is read
IterNextHeader(file, capacity, it, header) ==
    IF ~CanRead(file, byte_offset(it.current), HEADER_SIZE + header.len)
    THEN [it |-> it, item |-> NoneItem]
    ELSE IterNextEntry(capacity, it, header,
            Slice(file, byte_offset(it.current), HEADER_SIZE + header.len))

IterNextOf(file, capacity, it) ==
    IF PosGeq(it.current, it.end) THEN [it |-> it, item |-> NoneItem]
    ELSE IF ~CanRead(file, byte_offset(it.current), HEADER_SIZE)
    THEN [it |-> it, item |-> NoneItem]
    ELSE IterNextHeader(file, capacity, it, ReadHeader(file, byte_offset(it.current)))

(***************************************************************************)
(* The program state.                                                      *)
(***************************************************************************)
VARIABLES
    capacity,   \* Wal.capacity: blocks of the device file
    file,       \* the bytes of the device file
    inflight,   \* writes the device accepted and has not performed yet
    st,         \* "closed": no Wal instance; "open": open returned one
    head,       \* Wal.head
    tail,       \* Wal.tail
    it,         \* the WalIterator open returned: [current, end, live]
    yielded,    \* what the calls of next on it returned, in order
    last,       \* the call of append, truncate or open that has just returned
    hist,       \* history of the run, used to state the claims
    dev,        \* the device behind the Wal: its kind, its completions not yet
                \*   drained, the map of the in-memory device, the worker thread
    obs         \* history of the writes and drains of the device

vars == << capacity, file, inflight, st, head, tail, it, yielded, last, hist, dev, obs >>

devvars == << dev, obs >>

\* payloads given to append: one of a single byte (one block) and one of
\* two blocks whose second block begins with twelve payload bytes
Payloads == { Run(1, Plain(1)), Run(4096, Plain(3)) }

NoPos == [some |-> FALSE, pos |-> Pos(0, 0)]
SomePos(p) == [some |-> TRUE, pos |-> p]

NoFlip == [some |-> FALSE, entry |-> [pos |-> Pos(0, 0), data |-> << >>],
           byte |-> 0, bit |-> 0]

NoCall == [op |-> "none", preHead |-> Pos(0, 0), ret |-> "ok", pos |-> Pos(0, 0),
           data |-> << >>, writes |-> << >>]

\* the iterator once the caller has dropped it
NoIter == [current |-> Pos(0, 0), end |-> Pos(0, 0), live |-> FALSE]

\* a device just constructed: no completion, nothing stored, worker idle
NoWork == [pc |-> "recv", w |-> << >>, ok |-> FALSE]
NewDevice(kind) == [kind |-> kind, cq |-> << >>, store |-> {}, wk |-> NoWork]

NoObs == [accepted |-> {},      \* positions the successful appends returned
          appends |-> 0,        \* calls of append so far
          faults |-> 0,         \* events off the normal path so far
          since |-> 0,          \* calls of append since the last drain
          sub |-> << >>,        \* writes the device took, in submission order
          sinceW |-> << >>,     \*   and those it took since the last drain
          done |-> << >>,       \* writes the device has carried out, in order,
                                \*   each with its result
          drained |-> << >>,    \* positions the drains yielded, in order
          drains |-> 0,         \* calls of process_completions so far
          unsynced |-> {},      \* positions pending at a drain whose sync failed
          prev |-> [yield |-> << >>, w |-> << >>, since |-> 0, cq |-> << >>]]
                                \* the last drain: what it yielded, the writes
                                \*   and appends since the drain before it, and
                                \*   the completions it found

Init ==
    /\ capacity \in 1..MaxCapacity
    /\ file = Zeros(capacity * BLOCK_SIZE)
    /\ inflight = << >>
    /\ st = "closed"
    /\ head = Pos(0, 0)
    /\ tail = Pos(0, 0)
    /\ it = NoIter
    /\ yielded = << >>
    /\ last = NoCall
    /\ hist = [live |-> {},         \* appended entries whole on the device
               durEnd |-> Pos(0, 0),\* the position after the last entry the
                                    \*   device has written
               opens |-> 0,         \* calls of open so far
               rejects |-> 0,       \* appends that returned no position so far
               okPrev |-> NoPos,    \* the positions the last two successful
               okLast |-> NoPos,    \*   appends of this instance returned
               flip |-> NoFlip,     \* the bit changed on the device, if any
               truncs |-> 0,        \* calls of truncate so far
               pad |-> NoPos]       \* the position of the pad-out, when the
                                    \*   last write the device performed is a
                                    \*   pad-out of at least one block
    /\ dev = NewDevice("pwrite")
    /\ obs = NoObs

(***************************************************************************)
(* The device (thread-offload device, pwrite.rs): write queues the         *)
(* submission on the bounded channel; the worker performs the queued       *)
(* writes in order.                                                        *)
(***************************************************************************)
\* PersistentDevice::write: try_send on the bounded channel.  The write is
\* rejected when the channel is full (would-block); accept = FALSE is a
\* rejection for another reason (the worker is gone: broken-pipe)
DevWrite(queue, w, accept) ==
    IF accept /\ Len(queue) < MaxInflight
    THEN [ok |-> TRUE, queue |-> Append(queue, w)]
    ELSE [ok |-> FALSE, queue |-> queue]

\* a submission: CompletionData, and the payload it frames (for the history)
WriteRec(pos, data, notify, payload) ==
    [pos |-> pos, data |-> data, notify |-> notify, payload |-> payload]

\* the blocks [from, to) a write covers
WriteFrom(w) == w.pos.offset
WriteTo(w) == w.pos.offset + ByteLen(w.data) \div BLOCK_SIZE

Entry(pos, payload) == [pos |-> pos, data |-> payload]
EntryBlocks(e) == num_blocks(ByteLen(e.data))

\* the history after the device has performed the write w
HistAfterWrite(h, w) ==
    [h EXCEPT
       !.live = { e \in @ : \/ e.pos.offset + EntryBlocks(e) <= WriteFrom(w)
                            \/ e.pos.offset >= WriteTo(w) }
                \cup (IF w.notify THEN { Entry(w.pos, w.payload) } ELSE {}),
       !.durEnd = IF w.notify THEN Pos(w.pos.rollover, WriteTo(w)) ELSE @,
       !.pad = IF w.notify THEN NoPos
               ELSE IF w.data = << >> THEN @
               ELSE SomePos(w.pos)]

\* the pwrite of the worker: the buffer lands at the byte offset of its position
PWrite(f, w) == Splice(f, byte_offset(w.pos), w.data)

\* the worker loop: pwrite of the oldest queued submission
Persist ==
    /\ inflight # << >>
    /\ file' = PWrite(file, Head(inflight))
    /\ hist' = HistAfterWrite(hist, Head(inflight))
    /\ inflight' = Tail(inflight)
    /\ last' = NoCall
    /\ UNCHANGED << capacity, st, head, tail, it, yielded >>
    /\ UNCHANGED devvars

(***************************************************************************)
(* Wal::append.                                                            *)
(***************************************************************************)
\* a wrap test that looks at head alone and not at the size of the entry
WouldWrap_HeadOnly(h, write_size, cap) == h.offset >= cap

\* the wrap test: the entry does not fit between head and the physical end
WouldWrap(h, write_size, cap) == h.offset + write_size > cap

\* a pad-out buffer of the size of the whole ring
PadOut_WholeRing(h, cap) == Zeros(cap * BLOCK_SIZE)

\* the zero buffer of the pad-out write: the blocks from head to the end
PadOut(h, cap) == Zeros((cap - h.offset) * BLOCK_SIZE)

\* a pad-out that bumps the rollover and leaves the offset where it was
HeadAfterPad_KeepOffset(h) == Pos(h.rollover + 1, h.offset)

\* the head after the pad-out write
HeadAfterPad(h) == Pos(h.rollover + 1, 0)

\* an append that never moves the head
HeadAfterWrite_Stay(h, write_size) == h

\* "move the head to the next position for the next write": done after the
\* entry write whatever its result
HeadAfterWrite(h, write_size) == [h EXCEPT !.offset = @ + write_size]

\* the entry write at head h and the head advance; before is the pad-out
\* write when there was one.  ret is "ok" (Ok(pos)) or "entry_err"
AppendEntry(h, write_size, before, entryW, res) ==
    [head |-> HeadAfterWrite(h, write_size),
     queue |-> res.queue,
     ret |-> IF res.ok THEN "ok" ELSE "entry_err",
     pos |-> h,
     writes |-> before \o (IF res.ok THEN << entryW >> ELSE << >>)]

AppendAt(h, queue, write_size, before, data, acceptEntry, entryW) ==
    AppendEntry(h, write_size, before, entryW, DevWrite(queue, entryW, acceptEntry))

\* a wrap branch that drops the result of the pad-out write and goes on
AppendWrap_IgnorePadErr(h, queue, write_size, data, acceptEntry, padW, pad) ==
    AppendAt(HeadAfterPad(h), pad.queue, write_size,
             IF pad.ok THEN << padW >> ELSE << >>, data, acceptEntry,
             WriteRec(HeadAfterPad(h), EncodeEntry(data, h.rollover + 1), TRUE, data))

\* the wrap branch: "pad_err" when the pad-out write fails (returned by ?)
AppendWrap(h, queue, write_size, data, acceptEntry, padW, pad) ==
    IF ~pad.ok
    THEN [head |-> h, queue |-> queue, ret |-> "pad_err", pos |-> h, writes |-> << >>]
    ELSE AppendAt(HeadAfterPad(h), pad.queue, write_size, << padW >>, data, acceptEntry,
                  WriteRec(HeadAfterPad(h), EncodeEntry(data, h.rollover + 1), TRUE, data))

AppendSized(h, queue, cap, data, acceptPad, acceptEntry, write_size, padW) ==
    IF WouldWrap(h, write_size, cap)
    THEN AppendWrap(h, queue, write_size, data, acceptEntry, padW,
                    DevWrite(queue, padW, acceptPad))
    ELSE AppendAt(h, queue, write_size, << >>, data, acceptEntry,
                  WriteRec(h, EncodeEntry(data, h.rollover), TRUE, data))

\* append(data) from head h with the device queue given; acceptPad and
\* acceptEntry say whether the device takes the two writes
AppendOf(h, queue, cap, data, acceptPad, acceptEntry) ==
    AppendSized(h, queue, cap, data, acceptPad, acceptEntry,
                AlignedBlocks(ByteLen(data) + HEADER_SIZE),
                WriteRec(h, PadOut(h, cap), FALSE, << >>))

\* the entry fits in the ring
AppendFits(data) == AlignedBlocks(ByteLen(data) + HEADER_SIZE) <= capacity

\* the bounds of the model on append: the rollover counter stops at
\* MaxRollover, and a damaged device is followed through open and the
\* iterator only
AppendInBounds(data) ==
    /\ WouldWrap(head, AlignedBlocks(ByteLen(data) + HEADER_SIZE), capacity)
          => head.rollover < MaxRollover
    /\ ~hist.flip.some

AppendApply(data, r) ==
    /\ r.ret # "ok" => hist.rejects < MaxRejects
    /\ head' = r.head
    /\ inflight' = r.queue
    /\ last' = [op |-> "append", preHead |-> head, ret |-> r.ret, pos |-> r.pos,
                data |-> data, writes |-> r.writes]
    /\ hist' = [hist EXCEPT
          !.rejects = IF r.ret # "ok" THEN @ + 1 ELSE @,
          !.okPrev = IF r.ret = "ok" THEN hist.okLast ELSE @,
          !.okLast = IF r.ret = "ok" THEN SomePos(r.pos) ELSE @]

\* the iterator open returned is consumed before the first append, as main
\* does: append leaves it dropped
AppendAction(data, acceptPad, acceptEntry) ==
    /\ st = "open"
    /\ AppendFits(data)
    /\ AppendInBounds(data)
    /\ AppendApply(data, AppendOf(head, inflight, capacity, data, acceptPad, acceptEntry))
    /\ it' = NoIter
    /\ yielded' = << >>
    /\ UNCHANGED << capacity, file, st, tail >>
    /\ UNCHANGED devvars

\* a pad-out of no block (head is at the physical end) allocates a buffer
\* of size 0 with alloc_zeroed, which the allocator contract leaves
\* undefined: the call either goes on with an empty write (AppendAction)
\* or the process dies here, and with it the worker and its queue
AppendAbort(data) ==
    /\ st = "open"
    /\ AppendFits(data)
    /\ AppendInBounds(data)
    /\ WouldWrap(head, AlignedBlocks(ByteLen(data) + HEADER_SIZE), capacity)
    /\ capacity - head.offset = 0
    /\ hist.opens < MaxOpens
    /\ hist.rejects < MaxRejects
    /\ st' = "closed"
    /\ inflight' = << >>
    /\ last' = [NoCall EXCEPT !.op = "abort", !.preHead = head, !.data = data]
    /\ hist' = [hist EXCEPT !.rejects = @ + 1]
    /\ it' = NoIter
    /\ yielded' = << >>
    /\ UNCHANGED << capacity, file, head, tail >>
    /\ UNCHANGED devvars

(***************************************************************************)
(* Wal::open, the end of a Wal instance, and WalIterator::next.            *)
(***************************************************************************)
\* an open that keeps the tail the last instance had in memory
OpenApply_KeepTail(r) ==
    IF r.err
    THEN /\ last' = [NoCall EXCEPT !.op = "open", !.ret = "err"]
         /\ hist' = [hist EXCEPT !.opens = @ + 1]
         /\ UNCHANGED << st, head, tail, it, yielded >>
    ELSE /\ st' = "open"
         /\ head' = r.head
         /\ tail' = tail
         /\ it' = [current |-> tail, end |-> r.head, live |-> TRUE]
         /\ yielded' = << >>
         /\ last' = [NoCall EXCEPT !.op = "open"]
         /\ hist' = [hist EXCEPT !.opens = @ + 1, !.okPrev = NoPos, !.okLast = NoPos]

OpenApply(r) ==
    IF r.err
    THEN /\ last' = [NoCall EXCEPT !.op = "open", !.ret = "err"]
         /\ hist' = [hist EXCEPT !.opens = @ + 1]
         /\ UNCHANGED << st, head, tail, it, yielded >>
    ELSE /\ st' = "open"
         /\ head' = r.head
         /\ tail' = r.tail
         /\ it' = [current |-> r.tail, end |-> r.head, live |-> TRUE]
         /\ yielded' = << >>
         /\ last' = [NoCall EXCEPT !.op = "open"]
         /\ hist' = [hist EXCEPT !.opens = @ + 1, !.okPrev = NoPos, !.okLast = NoPos]

\* open reads the file once the device of the previous instance is idle
Open ==
    /\ st = "closed"
    /\ inflight = << >>
    /\ hist.opens < MaxOpens
    /\ OpenApply(Recover(file, capacity))
    /\ UNCHANGED << capacity, file, inflight >>
    /\ UNCHANGED devvars

\* the Wal is dropped; the worker still performs the writes already queued
Close ==
    /\ st = "open"
    /\ hist.opens < MaxOpens
    /\ st' = "closed"
    /\ last' = NoCall
    /\ it' = NoIter
    /\ UNCHANGED << capacity, file, inflight, head, tail, yielded, hist >>
    /\ UNCHANGED devvars

\* the process dies: the writes the device has not performed are lost
Crash ==
    /\ inflight # << >>
    /\ hist.opens < MaxOpens
    /\ st' = "closed"
    /\ inflight' = << >>
    /\ last' = NoCall
    /\ it' = NoIter
    /\ UNCHANGED << capacity, file, head, tail, yielded, hist >>
    /\ UNCHANGED devvars

IterApply(r) ==
    /\ it' = r.it
    /\ yielded' = Append(yielded, [at |-> it.current, k |-> r.item.k,
                                    pos |-> r.item.pos, data |-> r.item.data])

\* one call of next; the record keeps the position it was called at
IterNext ==
    /\ st = "open"
    /\ it.live
    /\ Len(yielded) < MaxYield
    /\ IterApply(IterNextOf(file, capacity, it))
    /\ last' = NoCall
    /\ UNCHANGED << capacity, file, inflight, st, head, tail, hist >>
    /\ UNCHANGED devvars

Next ==
    \/ \E data \in Payloads, acceptPad, acceptEntry \in BOOLEAN :
          AppendAction(data, acceptPad, acceptEntry)
    \/ \E data \in Payloads : AppendAbort(data)
    \/ Persist
    \/ Open
    \/ Close
    \/ Crash
    \/ IterNext

Spec == Init /\ [][Next]_vars

(***************************************************************************)
(* Damage to the device while no instance is open: one bit of the          *)
(* CRC-covered bytes [4, 12 + len) of an entry stored whole is changed.    *)
(***************************************************************************)
Pow2(bit) == IF bit = 0 THEN 1 ELSE IF bit = 1 THEN 2 ELSE 64

\* the plain byte b with one bit changed
FlipByte(b, bit) ==
    Plain(IF (b.v \div Pow2(bit)) % 2 = 1 THEN b.v - Pow2(bit) ELSE b.v + Pow2(bit))

FlipBit(f, k, bit) == Splice(f, k, Run(1, FlipByte(ByteAt(f, k), bit)))

\* the bits changed: bit 0 of the rollover field, bits 0 and 1 of the len
\* field, bit 30 of the len field, bit 0 of the first payload byte
FlipChoices == { << 4, 0 >>, << 8, 0 >>, << 8, 1 >>, << 11, 6 >>, << 12, 0 >> }

Corrupt(e, c) ==
    /\ st = "closed"
    /\ inflight = << >>
    /\ ~hist.flip.some
    /\ e \in hist.live
    /\ c[1] < HEADER_SIZE + ByteLen(e.data)
    /\ file' = FlipBit(file, byte_offset(e.pos) + c[1], c[2])
    /\ hist' = [hist EXCEPT !.flip = [some |-> TRUE, entry |-> e, byte |-> c[1], bit |-> c[2]]]
    /\ UNCHANGED << capacity, inflight, st, head, tail, it, yielded, last >>
    /\ UNCHANGED devvars

NextCorrupt ==
    \/ Next
    \/ \E e \in hist.live, c \in FlipChoices : Corrupt(e, c)

SpecCorrupt == Init /\ [][NextCorrupt]_vars

(***************************************************************************)
(* Wal::truncate.  In this specification the device accepts every append,  *)
(* and the caller truncates once it has finished appending.                *)
(***************************************************************************)
\* a truncate that takes the position whatever the tail is
TruncateOf_Always(t, position) == position

\* the tail after truncate(position): "if position > self.tail"
TruncateOf(t, position) == IF PosLess(t, position) THEN position ELSE t

\* the positions given to truncate: the second block of the first
\* rollover, the head, and the start of the rollover after the head's
TruncPositions == { Pos(0, 1), head, Pos(head.rollover + 1, 0) }

Truncate(position) ==
    /\ st = "open"
    /\ hist.truncs < MaxTruncs
    /\ tail' = TruncateOf(tail, position)
    /\ last' = [NoCall EXCEPT !.op = "truncate", !.preHead = head, !.pos = position]
    /\ hist' = [hist EXCEPT !.truncs = @ + 1]
    /\ UNCHANGED << capacity, file, inflight, st, head, it, yielded >>
    /\ UNCHANGED devvars

NextTrunc ==
    \/ \E data \in Payloads : hist.truncs = 0 /\ AppendAction(data, TRUE, TRUE)
    \/ \E data \in Payloads : hist.truncs = 0 /\ AppendAbort(data)
    \/ Persist
    \/ Open
    \/ Close
    \/ \E position \in TruncPositions : Truncate(position)

SpecTrunc == Init /\ [][NextTrunc]_vars

(***************************************************************************)
(* The devices behind the Wal and their completions.  The in-memory and    *)
(* the synchronous device carry a write out before write returns; the      *)
(* thread-offload, completion-ring and event-queue devices queue it, and   *)
(* the worker thread or the kernel carries it out later, with success or   *)
(* with an error.  dev.cq holds one record per completion the device has   *)
(* and the caller has not drained: [pos, notify, ok].                       *)
(***************************************************************************)
DeviceKinds == { "pwrite", "uring", "kqueue", "sync", "mem" }

\* the devices whose write carries the write out before it returns
Synchronous(kind) == kind \in { "sync", "mem" }

\* the devices whose completions the kernel posts
KernelQueued(kind) == kind \in { "uring", "kqueue" }

Cqe(w, ok) == [pos |-> w.pos, notify |-> w.notify, ok |-> ok]

Positions(s) == [i \in 1..Len(s) |-> s[i].pos]

Range(s) == { s[i] : i \in 1..Len(s) }

IsNotify(w) == w.notify

\* a drain that yields every completion it finds, failed or not
Surfaced_All(c) == c.notify

\* the completion is yielded: "cqe.result() >= 0 && data.notify"
Surfaced(c) == c.ok /\ c.notify

\* the positions a drain yields from the completions it finds: the ring
\* and the event queue hold a completion for every write and the drain
\* picks; the other devices hold positions, and the drain yields them all
Yields(kind, cq) ==
    IF kind \in { "uring", "kqueue" }
    THEN Positions(SelectSeq(cq, Surfaced))
    ELSE Positions(cq)

\* MemDevice::write: the buffer replaces what the map held at the block offset
MemInsert(store, w) ==
    { e \in store : e.key # w.pos.offset } \cup { [key |-> w.pos.offset, data |-> w.data] }

MemFound(hit, len) ==
    IF len > ByteLen(hit.data)
    THEN [err |-> TRUE, data |-> << >>]
    ELSE [err |-> FALSE, data |-> TakeBytes(hit.data, len)]

\* MemDevice::read(pos, len), pos a byte offset
MemRead(store, pos, len) ==
    IF \E e \in store : e.key = pos \div BLOCK_SIZE
    THEN MemFound(CHOOSE e \in store : e.key = pos \div BLOCK_SIZE, len)
    ELSE [err |-> FALSE, data |-> Zeros(len)]

\* SyncDevice::read(pos, len): seek and read_exact
SyncRead(f, pos, len) ==
    IF CanRead(f, pos, len)
    THEN [err |-> FALSE, data |-> Slice(f, pos, len)]
    ELSE [err |-> TRUE, data |-> << >>]

\* read of the device at a byte offset
DevRead(pos, len) ==
    IF dev.kind = "mem" THEN MemRead(dev.store, pos, len) ELSE SyncRead(file, pos, len)

\* the writes ws carried out in order on the file, on the map of the
\* in-memory device, and in the history
RECURSIVE WriteAll(_, _)
WriteAll(f, ws) == IF ws = << >> THEN f ELSE WriteAll(PWrite(f, Head(ws)), Tail(ws))

RECURSIVE StoreAll(_, _)
StoreAll(store, ws) ==
    IF ws = << >> THEN store ELSE StoreAll(MemInsert(store, Head(ws)), Tail(ws))

RECURSIVE HistAll(_, _)
HistAll(h, ws) == IF ws = << >> THEN h ELSE HistAll(HistAfterWrite(h, Head(ws)), Tail(ws))

Cqes(ws) == [i \in 1..Len(ws) |-> Cqe(ws[i], TRUE)]

Done(w, ok) == [pos |-> w.pos, notify |-> w.notify, ok |-> ok]

Dones(ws) == [i \in 1..Len(ws) |-> Done(ws[i], TRUE)]

\* a synchronous device that reports every write, asked to or not
SyncDevAfter_NotifyAll(d, ws) ==
    [d EXCEPT !.store = IF d.kind = "mem" THEN StoreAll(@, ws) ELSE @,
              !.cq = @ \o Cqes(ws)]

\* write of a synchronous device for each of ws: the bytes are stored, and
\* the position is pushed on completions (mem.rs) or pending_syncs (sync.rs)
\* "if notify"
SyncDevAfter(d, ws) ==
    [d EXCEPT !.store = IF d.kind = "mem" THEN StoreAll(@, ws) ELSE @,
              !.cq = @ \o Cqes(SelectSeq(ws, IsNotify))]

HistAfterAppend(h, r) ==
    [h EXCEPT
       !.rejects = IF r.ret # "ok" THEN @ + 1 ELSE @,
       !.okPrev = IF r.ret = "ok" THEN h.okLast ELSE @,
       !.okLast = IF r.ret = "ok" THEN SomePos(r.pos) ELSE @]

ObsAfterAppend(o, r, sync) ==
    [o EXCEPT
       !.accepted = IF r.ret = "ok" THEN @ \cup { r.pos } ELSE @,
       !.appends = @ + 1,
       !.faults = IF r.ret # "ok" THEN @ + 1 ELSE @,
       !.since = @ + 1,
       !.sub = @ \o r.writes,
       !.sinceW = @ \o r.writes,
       !.done = IF sync THEN @ \o Dones(r.writes) ELSE @]

\* Wal::append over the device: r is the outcome of append, with the
\* writes the device took in r.writes and (asynchronous devices) its queue
\* afterwards in r.queue
DevAppendApply(data, r) ==
    /\ r.ret # "ok" => obs.faults < MaxFaults
    /\ head' = r.head
    /\ last' = [op |-> "append", preHead |-> head, ret |-> r.ret, pos |-> r.pos,
                data |-> data, writes |-> r.writes]
    /\ inflight' = r.queue
    /\ file' = IF dev.kind = "sync" THEN WriteAll(file, r.writes) ELSE file
    /\ dev' = IF Synchronous(dev.kind) THEN SyncDevAfter(dev, r.writes) ELSE dev
    /\ hist' = IF dev.kind = "sync"
               THEN HistAll(HistAfterAppend(hist, r), r.writes)
               ELSE HistAfterAppend(hist, r)
    /\ obs' = ObsAfterAppend(obs, r, Synchronous(dev.kind))
    /\ it' = NoIter
    /\ yielded' = << >>
    /\ UNCHANGED << capacity, st, tail >>

\* a synchronous device has no queue
NoQueue(r) == [r EXCEPT !.queue = << >>]

\* append; the in-memory device rejects no write inside its capacity, the
\* other devices can (an I/O error of the synchronous device, a full queue)
DevAppend(data, acceptPad, acceptEntry) ==
    /\ st = "open"
    /\ AppendFits(data)
    /\ AppendInBounds(data)
    /\ obs.appends < MaxAppends
    /\ dev.kind = "mem" => (acceptPad /\ acceptEntry)
    /\ IF Synchronous(dev.kind)
       THEN DevAppendApply(data,
                NoQueue(AppendOf(head, << >>, capacity, data, acceptPad, acceptEntry)))
       ELSE DevAppendApply(data,
                AppendOf(head, inflight, capacity, data, acceptPad, acceptEntry))

\* LinuxUring::write when push succeeds and submit() returns an error: the
\* entry is in the submission ring, which the kernel polls, and write
\* returns the error.  r is the append whose write (the pad-out or the
\* entry) met that error
SubmitErrQueue(r, data) ==
    IF r.ret = "pad_err"
    THEN Append(r.queue, WriteRec(head, PadOut(head, capacity), FALSE, << >>))
    ELSE Append(r.queue, WriteRec(r.pos, EncodeEntry(data, r.pos.rollover), TRUE, data))

UringSubmitErrApply(data, r) ==
    /\ r.ret # "ok"
    /\ Len(r.queue) < MaxInflight
    /\ DevAppendApply(data, [r EXCEPT !.queue = SubmitErrQueue(r, data)])

UringSubmitErr(data, acceptPad) ==
    /\ st = "open"
    /\ dev.kind = "uring"
    /\ AppendFits(data)
    /\ AppendInBounds(data)
    /\ obs.appends < MaxAppends
    /\ UringSubmitErrApply(data, AppendOf(head, inflight, capacity, data, acceptPad, FALSE))

\* the queued submission the worker takes, and the queue it leaves
NextTask_Newest(queue) == queue[Len(queue)]

NextTask(queue) == Head(queue)

\* the worker thread of the thread-offload device: task_receiver.recv()
WorkerRecv ==
    /\ dev.kind = "pwrite"
    /\ dev.wk.pc = "recv"
    /\ inflight # << >>
    /\ dev' = [dev EXCEPT !.wk = [pc |-> "pwrite", w |-> << NextTask(inflight) >>,
                                  ok |-> FALSE]]
    /\ inflight' = Tail(inflight)
    /\ last' = NoCall
    /\ UNCHANGED << capacity, file, st, head, tail, it, yielded, hist, obs >>

\* libc::pwrite returns: ok when res >= 0
WorkerPwriteOf(w, ok) ==
    /\ ~ok => obs.faults < MaxFaults
    /\ file' = IF ok THEN PWrite(file, w) ELSE file
    /\ hist' = IF ok THEN HistAfterWrite(hist, w) ELSE hist
    /\ dev' = [dev EXCEPT !.wk.pc = "send", !.wk.ok = ok]
    /\ obs' = [obs EXCEPT !.done = Append(@, Done(w, ok)),
                          !.faults = IF ok THEN @ ELSE @ + 1]

WorkerPwrite(ok) ==
    /\ dev.kind = "pwrite"
    /\ dev.wk.pc = "pwrite"
    /\ WorkerPwriteOf(dev.wk.w[1], ok)
    /\ last' = NoCall
    /\ UNCHANGED << capacity, inflight, st, head, tail, it, yielded >>

\* "if res >= 0 && data.notify"
Notifies(wk) == wk.ok /\ wk.w[1].notify

\* completion_sender.send, then the buffer is dropped and the loop goes
\* back to recv
WorkerSend ==
    /\ dev.kind = "pwrite"
    /\ dev.wk.pc = "send"
    /\ dev' = [dev EXCEPT
          !.cq = IF Notifies(dev.wk) THEN Append(@, Cqe(dev.wk.w[1], dev.wk.ok)) ELSE @,
          !.wk = NoWork]
    /\ last' = NoCall
    /\ UNCHANGED << capacity, file, inflight, st, head, tail, it, yielded, hist, obs >>

Without(queue, i) == SubSeq(queue, 1, i - 1) \o SubSeq(queue, i + 1, Len(queue))

\* the kernel carries out one of the writes submitted to the completion
\* ring or as an AIO request, in any order, and posts its completion with
\* the result
KernelCompleteOf(w, i, ok) ==
    /\ (~ok \/ i > 1) => obs.faults < MaxFaults
    /\ file' = IF ok THEN PWrite(file, w) ELSE file
    /\ hist' = IF ok THEN HistAfterWrite(hist, w) ELSE hist
    /\ inflight' = Without(inflight, i)
    /\ dev' = [dev EXCEPT !.cq = Append(@, Cqe(w, ok))]
    /\ obs' = [obs EXCEPT !.done = Append(@, Done(w, ok)),
                          !.faults = IF ok /\ i = 1 THEN @ ELSE @ + 1]

KernelComplete(i, ok) ==
    /\ KernelQueued(dev.kind)
    /\ i \in 1..Len(inflight)
    /\ KernelCompleteOf(inflight[i], i, ok)
    /\ last' = NoCall
    /\ UNCHANGED << capacity, st, head, tail, it, yielded >>

\* a failed sync that drops the pending positions
CqAfterDrain_Drop(cq, syncOk) == << >>

\* a drain that leaves the completions it yielded in the device
CqAfterDrain_Keep(cq, syncOk) == cq

\* what the device keeps after a drain: nothing, or (sync.rs) all of
\* pending_syncs when sync_data failed and the drain returned early
CqAfterDrain(cq, syncOk) == IF syncOk THEN << >> ELSE cq

ObsAfterDrain(o, cq, ys, syncOk) ==
    [o EXCEPT
       !.drained = @ \o ys,
       !.drains = @ + 1,
       !.faults = IF syncOk THEN @ ELSE @ + 1,
       !.since = 0,
       !.sinceW = << >>,
       !.unsynced = IF syncOk THEN @ ELSE @ \cup Range(Positions(cq)),
       !.prev = [yield |-> ys, w |-> o.sinceW, since |-> o.since, cq |-> cq]]

\* Wal::process_completions: the drain of the device.  syncOk is the
\* result of sync_data, which only the synchronous device calls
Drain(syncOk) ==
    /\ st = "open"
    /\ obs.drains < MaxDrains
    /\ dev.kind # "sync" => syncOk
    /\ ~syncOk => obs.faults < MaxFaults
    /\ dev' = [dev EXCEPT !.cq = CqAfterDrain(@, syncOk)]
    /\ obs' = ObsAfterDrain(obs, dev.cq, IF syncOk THEN Yields(dev.kind, dev.cq) ELSE << >>, syncOk)
    /\ last' = [NoCall EXCEPT !.op = "drain", !.ret = IF syncOk THEN "ok" ELSE "sync_err"]
    /\ UNCHANGED << capacity, file, inflight, st, head, tail, it, yielded, hist >>

\* a Wal over each kind of device, on a fresh device file
InitDev ==
    /\ capacity = MaxCapacity
    /\ file = Zeros(capacity * BLOCK_SIZE)
    /\ inflight = << >>
    /\ st = "closed"
    /\ head = Pos(0, 0)
    /\ tail = Pos(0, 0)
    /\ it = NoIter
    /\ yielded = << >>
    /\ last = NoCall
    /\ hist = [live |-> {}, durEnd |-> Pos(0, 0), opens |-> 0, rejects |-> 0,
               okPrev |-> NoPos, okLast |-> NoPos, flip |-> NoFlip, truncs |-> 0,
               pad |-> NoPos]
    /\ \E kind \in DeviceKinds : dev = NewDevice(kind)
    /\ obs = NoObs

\* one Wal instance and its device, for as long as the process lives
NextDev ==
    \/ Open
    \/ \E data \in Payloads, acceptPad, acceptEntry \in BOOLEAN :
          DevAppend(data, acceptPad, acceptEntry)
    \/ \E data \in Payloads, acceptPad \in BOOLEAN : UringSubmitErr(data, acceptPad)
    \/ WorkerRecv
    \/ \E ok \in BOOLEAN : WorkerPwrite(ok)
    \/ WorkerSend
    \/ \E i \in 1..MaxInflight, ok \in BOOLEAN : KernelComplete(i, ok)
    \/ \E syncOk \in BOOLEAN : Drain(syncOk)

SpecDev == InitDev /\ [][NextDev]_vars

(***************************************************************************)
(* The Wal on a ring of three blocks, with a payload of two blocks whose   *)
(* last twelve bytes, the first of its second block, are zero.             *)
(***************************************************************************)
RingBlocks == 3

RingPayloads == { Run(1, Plain(1)), Cat(Run(4084, Plain(3)), Zeros(12)) }

InitRing ==
    /\ capacity = RingBlocks
    /\ file = Zeros(capacity * BLOCK_SIZE)
    /\ inflight = << >>
    /\ st = "closed"
    /\ head = Pos(0, 0)
    /\ tail = Pos(0, 0)
    /\ it = NoIter
    /\ yielded = << >>
    /\ last = NoCall
    /\ hist = [live |-> {}, durEnd |-> Pos(0, 0), opens |-> 0, rejects |-> 0,
               okPrev |-> NoPos, okLast |-> NoPos, flip |-> NoFlip, truncs |-> 0,
               pad |-> NoPos]
    /\ dev = NewDevice("pwrite")
    /\ obs = NoObs

NextRing ==
    \/ \E data \in RingPayloads, acceptPad, acceptEntry \in BOOLEAN :
          AppendAction(data, acceptPad, acceptEntry)
    \/ \E data \in RingPayloads : AppendAbort(data)
    \/ Persist
    \/ Open
    \/ Close
    \/ Crash
    \/ IterNext

SpecRing == InitRing /\ [][NextRing]_vars

(***************************************************************************)
(* Appends of any size on one Wal instance.  append has no test of the     *)
(* size of the entry against the capacity: an entry of more blocks than    *)
(* the ring takes the wrap branch like any entry that does not fit.  A     *)
(* write that reaches past the end of the device file extends the file.    *)
(* The run is followed up to the append that finds head.offset above the   *)
(* capacity, where capacity - head.offset overflows.                       *)
(***************************************************************************)
BigPayloads == Payloads \cup { Run(2 * BLOCK_SIZE, Plain(5)) }

AppendBig(data, acceptPad, acceptEntry) ==
    /\ st = "open"
    /\ head.offset <= capacity
    /\ AppendInBounds(data)
    /\ AppendApply(data, AppendOf(head, inflight, capacity, data, acceptPad, acceptEntry))
    /\ it' = NoIter
    /\ yielded' = << >>
    /\ UNCHANGED << capacity, file, st, tail >>
    /\ UNCHANGED devvars

NextBig ==
    \/ Open
    \/ \E data \in BigPayloads, acceptPad, acceptEntry \in BOOLEAN :
          AppendBig(data, acceptPad, acceptEntry)
    \/ Persist

SpecBig == Init /\ [][NextBig]_vars

(***************************************************************************)
(* Appends of an empty payload.  append takes data of any length: for an   *)
(* empty slice the buffer is one block and the header it seals has         *)
(* len = 0.                                                                *)
(***************************************************************************)
EmptyPayloads == { << >>, Run(1, Plain(1)) }

NextEmpty ==
    \/ \E data \in EmptyPayloads, acceptPad, acceptEntry \in BOOLEAN :
          AppendAction(data, acceptPad, acceptEntry)
    \/ Persist
    \/ Open
    \/ Close

SpecEmpty == Init /\ [][NextEmpty]_vars


(***************************************************************************)
(* Wal::open with a mem:// URI.  The mem branch of open builds the device  *)
(* and nothing else: the capacity, the Wal and the file recovery reads are  *)
(* all taken from the path of the URI inside the branch of the file         *)
(* schemes, and the path of mem://N names no device file.  No Wal and no    *)
(* iterator come out of the call.                                           *)
(***************************************************************************)
OpenMem ==
    /\ st = "closed"
    /\ inflight = << >>
    /\ hist.opens < MaxOpens
    /\ last' = [NoCall EXCEPT !.op = "open_mem", !.ret = "err"]
    /\ hist' = [hist EXCEPT !.opens = @ + 1]
    /\ UNCHANGED << capacity, file, inflight, st, head, tail, it, yielded >>
    /\ UNCHANGED devvars

NextUri ==
    \/ Next
    \/ OpenMem

SpecUri == Init /\ [][NextUri]_vars

(***************************************************************************)
(* The in-memory and the synchronous device driven directly, as their      *)
(* tests drive them: write at any position with a buffer of any number of  *)
(* blocks, and process_completions.                                        *)
(***************************************************************************)
\* blocks of the largest buffer handed to write
MaxBlocks == 2

\* a capacity test that looks at the start of the write only
WriteExceeds_StartOnly(kind, pos, data, cap, f) ==
    IF kind = "mem"
    THEN pos.offset >= cap
    ELSE byte_offset(pos) >= ByteLen(f)

\* "write_end > self.capacity_blocks" (mem.rs, in blocks) and
\* "write_end > file_len" (sync.rs, in bytes)
WriteExceeds(kind, pos, data, cap, f) ==
    IF kind = "mem"
    THEN pos.offset + ByteLen(data) \div BLOCK_SIZE > cap
    ELSE byte_offset(pos) + ByteLen(data) > ByteLen(f)

\* PersistentDevice::write of the two devices: ret is "ok", "invalid"
\* (ErrorKind::InvalidInput) or "io" (seek or write_all failed; metadata of
\* the open descriptor is taken to succeed)
RawWriteOf(d, f, cap, w, ioOk) ==
    IF WriteExceeds(d.kind, w.pos, w.data, cap, f)
    THEN [ret |-> "invalid", dev |-> d, file |-> f]
    ELSE IF d.kind = "sync" /\ ~ioOk
    THEN [ret |-> "io", dev |-> d, file |-> f]
    ELSE [ret |-> "ok", dev |-> SyncDevAfter(d, << w >>),
          file |-> IF d.kind = "sync" THEN PWrite(f, w) ELSE f]

RawWriteApply(w, r) ==
    /\ r.ret # "ok" => obs.faults < MaxFaults
    /\ dev' = r.dev
    /\ file' = r.file
    /\ last' = [op |-> "write", preHead |-> Pos(0, 0), ret |-> r.ret, pos |-> w.pos,
                data |-> w.data, writes |-> << w >>]
    /\ obs' = [obs EXCEPT !.appends = @ + 1,
                          !.faults = IF r.ret # "ok" THEN @ + 1 ELSE @]

\* one call of write on the device; the buffer of the n-th call is filled
\* with the byte n
RawWrite(pos, blocks, byte, notify, ioOk) ==
    /\ obs.appends < MaxAppends
    /\ dev.kind = "mem" => ioOk
    /\ RawWriteApply(WriteRec(pos, Run(blocks * BLOCK_SIZE, Plain(byte)), notify, << >>),
                     RawWriteOf(dev, file, capacity,
                                WriteRec(pos, Run(blocks * BLOCK_SIZE, Plain(byte)),
                                         notify, << >>), ioOk))
    /\ UNCHANGED << capacity, inflight, st, head, tail, it, yielded, hist >>

\* one call of process_completions on the device
RawDrain(syncOk) ==
    /\ obs.drains < MaxDrains
    /\ dev.kind # "sync" => syncOk
    /\ ~syncOk => obs.faults < MaxFaults
    /\ dev' = [dev EXCEPT !.cq = CqAfterDrain(@, syncOk)]
    /\ obs' = ObsAfterDrain(obs, dev.cq, IF syncOk THEN Yields(dev.kind, dev.cq) ELSE << >>, syncOk)
    /\ last' = [NoCall EXCEPT !.op = "drain", !.ret = IF syncOk THEN "ok" ELSE "sync_err"]
    /\ UNCHANGED << capacity, file, inflight, st, head, tail, it, yielded, hist >>

\* MemDevice::new(capacity) or SyncDevice::new on a file of capacity blocks
InitRaw ==
    /\ capacity \in 1..MaxCapacity
    /\ file = Zeros(capacity * BLOCK_SIZE)
    /\ inflight = << >>
    /\ st = "closed"
    /\ head = Pos(0, 0)
    /\ tail = Pos(0, 0)
    /\ it = NoIter
    /\ yielded = << >>
    /\ last = NoCall
    /\ hist = [live |-> {}, durEnd |-> Pos(0, 0), opens |-> 0, rejects |-> 0,
               okPrev |-> NoPos, okLast |-> NoPos, flip |-> NoFlip, truncs |-> 0,
               pad |-> NoPos]
    /\ \E kind \in { "mem", "sync" } : dev = NewDevice(kind)
    /\ obs = NoObs

NextRaw ==
    \/ \E offset \in 0..(capacity + 1), blocks \in 1..MaxBlocks, notify, ioOk \in BOOLEAN :
          RawWrite(Pos(0, offset), blocks, obs.appends + 1, notify, ioOk)
    \/ \E syncOk \in BOOLEAN : RawDrain(syncOk)

SpecRaw == InitRaw /\ [][NextRaw]_vars

(***************************************************************************)
(* The devices with a caller that calls process_completions again and      *)
(* again.  The drain of the event-queue device has a branch for an event   *)
(* whose request is still in progress (aio_error is EINPROGRESS): the      *)
(* event has been taken off the kernel queue by kevent, the record is      *)
(* leaked back and nothing of the device remembers it.  dev.cq holds the   *)
(* events of the kernel queue; dev.fired holds the requests in flight      *)
(* whose event a drain has taken while they were in progress.  Whether the *)
(* kernel delivers a second event for such a request when it completes is  *)
(* the kernel's choice.                                                    *)
(***************************************************************************)
\* the event of the request w while the request is still in progress
InProgress(w) == [pos |-> w.pos, notify |-> w.notify, ok |-> FALSE, busy |-> TRUE]

NewLiveDevice(kind) ==
    [kind |-> kind, cq |-> << >>, store |-> {}, wk |-> NoWork, fired |-> {}]

\* the kernel queues the event of the request i of the event-queue device
\* before the request is complete
KernelEarlyEvent(i) ==
    /\ dev.kind = "kqueue"
    /\ i \in 1..Len(inflight)
    /\ inflight[i] \notin dev.fired
    /\ InProgress(inflight[i]) \notin Range(dev.cq)
    /\ obs.faults < MaxFaults
    /\ dev' = [dev EXCEPT !.cq = Append(@, InProgress(inflight[i]))]
    /\ obs' = [obs EXCEPT !.faults = @ + 1]
    /\ last' = NoCall
    /\ UNCHANGED << capacity, file, inflight, st, head, tail, it, yielded, hist >>

\* the kernel queue once the write w has completed with the result ok: an
\* event of w still queued now reads as complete (aio_error is called by
\* the drain); a request whose event a drain has taken gets a second event
\* or none; any other request gets its event
EventsAfter(d, w, ok, again) ==
    IF InProgress(w) \in Range(d.cq)
    THEN [i \in 1..Len(d.cq) |-> IF d.cq[i] = InProgress(w) THEN Cqe(w, ok) ELSE d.cq[i]]
    ELSE IF w \in d.fired /\ ~again THEN d.cq
    ELSE Append(d.cq, Cqe(w, ok))

KernelCompleteLiveOf(w, i, ok, again) ==
    /\ (~ok \/ i > 1) => obs.faults < MaxFaults
    /\ w \notin dev.fired => again
    /\ file' = IF ok THEN PWrite(file, w) ELSE file
    /\ hist' = IF ok THEN HistAfterWrite(hist, w) ELSE hist
    /\ inflight' = Without(inflight, i)
    /\ dev' = [dev EXCEPT !.cq = EventsAfter(dev, w, ok, again),
                          !.fired = @ \ { w }]
    /\ obs' = [obs EXCEPT !.done = Append(@, Done(w, ok)),
                          !.faults = IF ok /\ i = 1 THEN @ ELSE @ + 1]

\* the kernel carries out one of the queued writes and posts its completion
KernelCompleteLive(i, ok, again) ==
    /\ KernelQueued(dev.kind)
    /\ i \in 1..Len(inflight)
    /\ KernelCompleteLiveOf(inflight[i], i, ok, again)
    /\ last' = NoCall
    /\ UNCHANGED << capacity, st, head, tail, it, yielded >>

\* the requests a drain finds in progress: "put it back" and continue
Skipped(cq, queue) == { queue[i] : i \in { j \in 1..Len(queue) : InProgress(queue[j]) \in Range(cq) } }

\* process_completions, called any number of times; the calls are counted
\* modulo 2, so that a call that finds nothing is a step all the same
DrainLive(syncOk) ==
    /\ st = "open"
    /\ dev.kind # "sync" => syncOk
    /\ ~syncOk => obs.faults < MaxFaults
    /\ dev' = [dev EXCEPT !.cq = CqAfterDrain(@, syncOk),
                          !.fired = @ \cup Skipped(dev.cq, inflight)]
    /\ obs' = [ObsAfterDrain(obs, dev.cq,
                             IF syncOk THEN Yields(dev.kind, dev.cq) ELSE << >>, syncOk)
                 EXCEPT !.drains = (obs.drains + 1) % 2]
    /\ last' = [NoCall EXCEPT !.op = "drain", !.ret = IF syncOk THEN "ok" ELSE "sync_err"]
    /\ UNCHANGED << capacity, file, inflight, st, head, tail, it, yielded, hist >>

InitLive ==
    /\ capacity = MaxCapacity
    /\ file = Zeros(capacity * BLOCK_SIZE)
    /\ inflight = << >>
    /\ st = "closed"
    /\ head = Pos(0, 0)
    /\ tail = Pos(0, 0)
    /\ it = NoIter
    /\ yielded = << >>
    /\ last = NoCall
    /\ hist = [live |-> {}, durEnd |-> Pos(0, 0), opens |-> 0, rejects |-> 0,
               okPrev |-> NoPos, okLast |-> NoPos, flip |-> NoFlip, truncs |-> 0,
               pad |-> NoPos]
    /\ \E kind \in DeviceKinds : dev = NewLiveDevice(kind)
    /\ obs = NoObs

WorkerStep ==
    \/ WorkerRecv
    \/ \E ok \in BOOLEAN : WorkerPwrite(ok)
    \/ WorkerSend

KernelStep == \E i \in 1..MaxInflight, ok, again \in BOOLEAN : KernelCompleteLive(i, ok, again)

DrainStep == \E syncOk \in BOOLEAN : DrainLive(syncOk)

NextLive ==
    \/ Open
    \/ \E data \in Payloads, acceptPad, acceptEntry \in BOOLEAN :
          DevAppend(data, acceptPad, acceptEntry)
    \/ WorkerStep
    \/ KernelStep
    \/ \E i \in 1..MaxInflight : KernelEarlyEvent(i)
    \/ DrainStep

\* the worker thread runs, the kernel completes what it was given, and the
\* caller keeps calling process_completions
LiveFairness ==
    /\ WF_vars(WorkerStep)
    /\ WF_vars(KernelStep)
    /\ WF_vars(DrainStep)

SpecLive == InitLive /\ [][NextLive]_vars /\ LiveFairness

(***************************************************************************)
(* The in-memory device next to a flat array of capacity blocks.  The      *)
(* in-memory device has no file: in this specification the variable file   *)
(* is the flat array, on which every write the device accepts is carried   *)
(* out block by block.                                                     *)
(***************************************************************************)
\* MemDevice::write of a buffer of the given number of blocks; the buffer
\* of the n-th call is filled with the byte n
FlatWriteOf(w) ==
    /\ ~WriteExceeds("mem", w.pos, w.data, capacity, file)
    /\ dev' = SyncDevAfter(dev, << w >>)
    /\ file' = PWrite(file, w)
    /\ last' = [op |-> "write", preHead |-> Pos(0, 0), ret |-> "ok", pos |-> w.pos,
                data |-> w.data, writes |-> << w >>]
    /\ obs' = [obs EXCEPT !.appends = @ + 1]

FlatWrite(pos, blocks, notify) ==
    /\ obs.appends < MaxAppends
    /\ FlatWriteOf(WriteRec(pos, Run(blocks * BLOCK_SIZE, Plain(obs.appends + 1)),
                            notify, << >>))
    /\ UNCHANGED << capacity, inflight, st, head, tail, it, yielded, hist >>

FlatReadOf(pos, r) ==
    last' = [NoCall EXCEPT !.op = "read", !.ret = IF r.err THEN "err" ELSE "ok",
                           !.pos = pos, !.data = r.data]

\* MemDevice::read of one block at a block offset
FlatRead(pos) ==
    /\ last.op # "read"
    /\ FlatReadOf(pos, MemRead(dev.store, byte_offset(pos), BLOCK_SIZE))
    /\ UNCHANGED << capacity, file, inflight, st, head, tail, it, yielded, hist >>
    /\ UNCHANGED devvars

InitFlat ==
    /\ capacity \in 1..MaxCapacity
    /\ file = Zeros(capacity * BLOCK_SIZE)
    /\ inflight = << >>
    /\ st = "closed"
    /\ head = Pos(0, 0)
    /\ tail = Pos(0, 0)
    /\ it = NoIter
    /\ yielded = << >>
    /\ last = NoCall
    /\ hist = [live |-> {}, durEnd |-> Pos(0, 0), opens |-> 0, rejects |-> 0,
               okPrev |-> NoPos, okLast |-> NoPos, flip |-> NoFlip, truncs |-> 0,
               pad |-> NoPos]
    /\ dev = NewDevice("mem")
    /\ obs = NoObs

NextFlat ==
    \/ \E offset \in 0..(capacity - 1), blocks \in 1..MaxBlocks, notify \in BOOLEAN :
          FlatWrite(Pos(0, offset), blocks, notify)
    \/ \E offset \in 0..(capacity - 1) : FlatRead(Pos(0, offset))
    \/ \E syncOk \in { TRUE } : RawDrain(syncOk)

SpecFlat == InitFlat /\ [][NextFlat]_vars

(***************************************************************************)
(* Definitions used to state the claims.                                   *)
(***************************************************************************)
\* open has just returned a Wal
JustOpened == st = "open" /\ last.op = "open" /\ last.ret = "ok"

\* append has just returned
AppendReturned == st = "open" /\ last.op = "append"

\* the iterator open returned has been consumed: next has returned None
IterationDone ==
    st = "open" /\ it.live /\ yielded # << >> /\ yielded[Len(yielded)].k = "none"

\* the items next returned before None
RECURSIVE ItemsOf(_)
ItemsOf(ys) ==
    IF ys = << >> THEN << >>
    ELSE IF Head(ys).k = "none" THEN ItemsOf(Tail(ys))
    ELSE << [k |-> Head(ys).k, pos |-> Head(ys).pos, data |-> Head(ys).data] >>
         \o ItemsOf(Tail(ys))

\* the least entry of a set in the position order
MinEntry(S) == CHOOSE e \in S : \A o \in S : ~PosLess(o.pos, e.pos)

\* the entries of a set as items, in increasing position order
RECURSIVE InOrder(_)
InOrder(S) ==
    IF S = {} THEN << >>
    ELSE << OkItem(MinEntry(S).pos, MinEntry(S).data) >> \o InOrder(S \ { MinEntry(S) })

\* the file of a fresh device after the single append of data
FreshWith(data) == Splice(Zeros(capacity * BLOCK_SIZE), 0, EncodeEntry(data, 0))

\* the call that has just returned was an append that wrapped
LastWrapped == last.preHead.offset + num_blocks(ByteLen(last.data)) > capacity

\* the writes of the last call are the newest of the device queue
LastSubmitted ==
    /\ Len(last.writes) <= Len(inflight)
    /\ SubSeq(inflight, Len(inflight) - Len(last.writes) + 1, Len(inflight)) = last.writes

(***************************************************************************)
(* The claims.                                                             *)
(***************************************************************************)
\* C1: after appends that all succeeded, open recovers a head equal to the
\* position right after the last entry the device has written (all writes
\* on the device, or a prefix of them after a crash).
C1_RecoveredHeadFollowsLastEntry ==
    (JustOpened /\ hist.rejects = 0) => head = hist.durEnd

\* C2: a fresh device, one append(p), the write on the device, re-open and
\* iterate: exactly one item, with payload p and the position append returned.
C2_SingleEntryRoundTrip ==
    \A e \in hist.live :
        (/\ hist.live = { e }
         /\ hist.rejects = 0
         /\ file = FreshWith(e.data)
         /\ IterationDone)
            => ItemsOf(yielded) = << OkItem(e.pos, e.data) >>

\* C3: when the device rejects the entry write, append returns the error
\* and head is the same as before the call.
C3_RejectedEntryKeepsHead ==
    (AppendReturned /\ last.ret = "entry_err") => head = last.preHead

\* C4: the positions successful appends of one instance return are strictly
\* increasing, across wrap-arounds and failed appends.
C4_MonotonePositions ==
    hist.okPrev.some => PosLess(hist.okPrev.pos, hist.okLast.pos)

C4_Witness ==
    /\ hist.okPrev.some
    /\ hist.okPrev.pos.rollover < hist.okLast.pos.rollover
    /\ hist.rejects > 0

\* C5: no entry write submitted with notify = true spans the physical end:
\* offset + num_blocks <= capacity.
C5_NoEntrySpansEnd ==
    \A i \in 1..Len(inflight) :
        inflight[i].notify => WriteTo(inflight[i]) <= capacity

C5_Witness ==
    /\ AppendReturned /\ last.ret = "ok" /\ LastWrapped
    /\ last.preHead.offset < capacity
    /\ inflight[Len(inflight)].pos.offset = 0
    /\ WriteTo(inflight[Len(inflight)]) = capacity

\* C6 as stated: after an append returns, head.offset < capacity.
C6_HeadBelowCapacity == AppendReturned => head.offset < capacity

\* C6 amended: after an append returns, head.offset <= capacity.
C6_HeadWithinCapacity == AppendReturned => head.offset <= capacity

C6_Witness == AppendReturned /\ head.offset = capacity

\* C7: a successful append that does not fit first submits a zero pad-out of
\* the blocks [head.offset, capacity) at the old head with notify = false,
\* then the entry at (rollover + 1, 0), returns that position and leaves
\* head = (rollover + 1, num_blocks); one that fits submits the entry at the
\* old head, returns it and advances head.offset by num_blocks.
C7_WrapTriggersRollover ==
    (AppendReturned /\ last.ret = "ok") =>
        /\ LastSubmitted
        /\ IF LastWrapped
           THEN /\ Len(last.writes) = 2
                /\ last.writes[1].pos = last.preHead
                /\ ~last.writes[1].notify
                /\ last.writes[1].data
                     = Zeros((capacity - last.preHead.offset) * BLOCK_SIZE)
                /\ last.writes[2].pos = Pos(last.preHead.rollover + 1, 0)
                /\ last.writes[2].notify
                /\ last.pos = Pos(last.preHead.rollover + 1, 0)
                /\ head = Pos(last.preHead.rollover + 1, num_blocks(ByteLen(last.data)))
           ELSE /\ Len(last.writes) = 1
                /\ last.writes[1].pos = last.preHead
                /\ last.writes[1].notify
                /\ last.pos = last.preHead
                /\ head = Pos(last.preHead.rollover,
                              last.preHead.offset + num_blocks(ByteLen(last.data)))

C7_Witness ==
    /\ AppendReturned /\ last.ret = "ok" /\ LastWrapped
    /\ last.preHead.offset > 0
    /\ last.preHead.offset < capacity
    /\ hist.okPrev.some

\* C8: the iterator open returned yields exactly the appended entries still
\* whole on the device, with their positions and payloads, in increasing
\* position order, and nothing else (no append having failed).
C8_IterationYieldsStoredEntries ==
    (IterationDone /\ hist.rejects = 0) => ItemsOf(yielded) = InOrder(hist.live)

\* C9: after next has returned an invalid-data error, the next call returns
\* end-of-iteration (no append having failed).
C9_ErrorThenExhausted ==
    \A i \in 1..(Len(yielded) - 1) :
        (hist.rejects = 0 /\ yielded[i].k = "err") => yielded[i + 1].k = "none"

\* C10: when a bit of the CRC-covered bytes of an entry is changed, the call
\* of next that reaches the entry returns an invalid-data error (no append
\* having failed).
C10_FlipDetected ==
    \A i \in 1..Len(yielded) :
        (/\ hist.flip.some
         /\ hist.rejects = 0
         /\ st = "open" /\ it.live
         /\ yielded[i].at.offset = hist.flip.entry.pos.offset
         /\ PosLess(yielded[i].at, it.end))
            => yielded[i].k = "err"

\* a truncate has just returned
TruncateReturned == st = "open" /\ last.op = "truncate"

\* C11: between operations (every append having succeeded),
\* head.rollover > 0 implies tail.rollover = head.rollover - 1 and
\* head.offset <= tail.offset.
C11_WrappedHeadBehindTail ==
    (st = "open" /\ hist.rejects = 0 /\ head.rollover > 0)
        => (tail.rollover = head.rollover - 1 /\ head.offset <= tail.offset)

\* C12: between operations (every append having succeeded),
\* head.rollover = 0 implies tail = (0, 0) and tail <= head.
C12_UnwrappedTailAtOrigin ==
    (st = "open" /\ hist.rejects = 0 /\ head.rollover = 0)
        => (tail = Pos(0, 0) /\ PosGeq(head, tail))

\* C13: truncate(pos) leaves tail = pos when pos > tail and tail unchanged
\* when pos <= tail, so that no truncate moves the tail backwards.
C13_TruncateIsMax ==
    [][last'.op = "truncate" =>
          /\ (PosLess(tail, last'.pos) => tail' = last'.pos)
          /\ (~PosLess(tail, last'.pos) => tail' = tail)
          /\ ~PosLess(tail', tail)]_vars

C13_Witness ==
    /\ TruncateReturned
    /\ tail = last.pos
    /\ PosLess(head, tail)

\* C14: truncate submits no write and changes neither head nor the device,
\* and an open after truncates returns the head, the tail and the iterator
\* that recovery computes from the device contents alone.
C14_TruncateIsVolatile ==
    /\ [][last'.op = "truncate" =>
            (file' = file /\ inflight' = inflight /\ head' = head /\ dev' = dev)]_vars
    /\ [](JustOpened =>
            /\ head = Recover(file, capacity).head
            /\ tail = Recover(file, capacity).tail
            /\ it = [current |-> tail, end |-> head, live |-> TRUE])

C14_Witness ==
    /\ JustOpened
    /\ hist.truncs > 0
    /\ hist.live # {}
    /\ PosLess(tail, head)

\* how many times the position p occurs in the sequence s
Count(p, s) == Cardinality({ i \in 1..Len(s) : s[i] = p })

\* a drain has just returned
DrainReturned == st = "open" /\ last.op = "drain"

C16_YieldedWereAppended == \A p \in Range(obs.drained) : p \in obs.accepted

\* the writes of the last append that no later write of it covers
Uncovered(ws) ==
    { i \in 1..Len(ws) :
        \A j \in (i + 1)..Len(ws) :
            WriteTo(ws[j]) <= WriteFrom(ws[i]) \/ WriteFrom(ws[j]) >= WriteTo(ws[i]) }

C18_WorkerOrder ==
    dev.kind = "pwrite" =>
        /\ \A p \in Range(obs.drained) \cup Range(Positions(dev.cq)) :
              \E d \in Range(obs.done) : d.pos = p /\ d.ok
        /\ \A p \in Range(obs.drained) : Count(p, obs.drained) = 1
        /\ Len(obs.done) <= Len(obs.sub)
        /\ \A i \in 1..Len(obs.done) : obs.done[i].pos = obs.sub[i].pos

\* the worker is between its second pwrite and the send while the caller
\* has already drained the first position
C18_Witness ==
    /\ dev.kind = "pwrite"
    /\ dev.wk.pc = "send"
    /\ Len(obs.done) = 2
    /\ Len(obs.drained) = 1
    /\ inflight # << >>

\* the devices that carry a write out after write has returned
Asynchronous(kind) == kind \in { "uring", "kqueue", "pwrite" }

\* the positions the device has carried out with success and notify set and
\* still holds: in its completions, or with the worker about to send
Deliverable ==
    Range(Positions(SelectSeq(dev.cq, LAMBDA c : c.ok /\ c.notify)))
        \cup { dev.wk.w[i].pos : i \in { j \in 1..Len(dev.wk.w) : dev.wk.pc = "send" } }

C20_SyncFailureLosesPending ==
    dev.kind = "sync" =>
        /\ (DrainReturned /\ last.ret = "sync_err") => obs.prev.yield = << >>
        /\ \A p \in obs.unsynced : p \notin Range(obs.drained)

\* C20, amended: with the synchronous device, a drain whose data-sync
\* fails yields nothing and leaves the pending positions queued, in order;
\* a drain whose data-sync succeeds yields every pending position, those
\* of the failed drains included, and empties the queue.
C20_SyncFailureKeepsPending ==
    dev.kind = "sync" =>
        /\ (DrainReturned /\ last.ret = "sync_err")
              => (obs.prev.yield = << >> /\ dev.cq = obs.prev.cq)
        /\ (DrainReturned /\ last.ret = "ok")
              => /\ obs.prev.yield = Positions(obs.prev.cq)
                 /\ dev.cq = << >>
                 /\ obs.unsynced \subseteq Range(obs.drained)

C20_Witness ==
    /\ dev.kind = "sync"
    /\ DrainReturned
    /\ last.ret = "ok"
    /\ obs.unsynced # {}
    /\ obs.unsynced \subseteq Range(obs.prev.yield)


(***************************************************************************)
(* C21: on the in-memory and the synchronous device, a write whose end     *)
(* (block offset plus block count) is past the capacity of the device      *)
(* returns invalid-argument and leaves the stored data and the pending     *)
(* completions as they were, with notify set or not.                        *)
(***************************************************************************)
\* write has just returned for a buffer that ends past the device
WritePastEnd ==
    /\ last.op = "write"
    /\ last.pos.offset + ByteLen(last.data) \div BLOCK_SIZE > capacity

C21_WritePastEndRejected ==
    [][WritePastEnd' =>
         /\ last'.ret = "invalid"
         /\ file' = file
         /\ dev'.store = dev.store
         /\ dev'.cq = dev.cq]_vars

\* a rejected write that straddles the end, with notify set, on a device
\* that holds data and a pending completion
C21_Witness ==
    /\ WritePastEnd
    /\ last.ret = "invalid"
    /\ last.pos.offset < capacity
    /\ last.writes[1].notify
    /\ dev.cq # << >>
    /\ (dev.kind = "mem" => dev.store # {})
    /\ (dev.kind = "sync" => file # Zeros(capacity * BLOCK_SIZE))


(***************************************************************************)
(* C22: when the device rejects the pad-out write of a wrapping append,    *)
(* append returns that error, hands no entry write to the device, and      *)
(* leaves head where it was.                                                *)
(***************************************************************************)
\* the entry of the append that has just returned did not fit before the end
LastNeededWrap(h) ==
    WouldWrap(h, AlignedBlocks(ByteLen(last.data) + HEADER_SIZE), capacity)

C22_PadErrorKeepsHead ==
    [][/\ (last'.op = "append" /\ last'.ret = "pad_err")
             => (head' = head /\ inflight' = inflight /\ last'.writes = << >>)
       /\ (/\ last'.op = "append"
           /\ WouldWrap(head, AlignedBlocks(ByteLen(last'.data) + HEADER_SIZE), capacity)
           /\ Len(inflight) >= MaxInflight)
             => (last'.ret = "pad_err" /\ head' = head /\ inflight' = inflight)]_vars

\* a wrapping append from inside the ring, with writes queued, whose
\* pad-out write the device rejected
C22_Witness ==
    /\ AppendReturned
    /\ last.ret = "pad_err"
    /\ LastNeededWrap(last.preHead)
    /\ head = last.preHead
    /\ last.preHead.offset > 0
    /\ inflight # << >>


(***************************************************************************)
(* C23: open of a fresh device (mem://N, or a file of zeros) returns       *)
(* head = (0, 0) and tail = (0, 0), and the iterator it returns yields     *)
(* nothing.                                                                 *)
(***************************************************************************)
\* the device file holds zeros only
FileIsZero == file = Zeros(capacity * BLOCK_SIZE)

\* open returned a Wal on the empty log
OpenedEmpty ==
    /\ st = "open"
    /\ last.ret = "ok"
    /\ head = Pos(0, 0)
    /\ tail = Pos(0, 0)
    /\ it = [current |-> Pos(0, 0), end |-> Pos(0, 0), live |-> TRUE]

C23_FreshOpenIsEmpty ==
    /\ last.op = "open_mem" => OpenedEmpty
    /\ (last.op = "open" /\ FileIsZero) => OpenedEmpty
    /\ (st = "open" /\ it.live /\ FileIsZero)
          => \A i \in 1..Len(yielded) : yielded[i].k = "none"


(***************************************************************************)
(* C24: the head scan of open stops at the first entry whose CRC check     *)
(* fails: head is the position of that entry, and the iterator yields only *)
(* the entries before it; when it is the entry at offset 0 of a log that   *)
(* never wrapped, head = (0, 0), tail = (0, 0) and the iterator is empty.  *)
(***************************************************************************)
\* the entry a bit of which was changed is of the newest generation of the
\* log, which the head scan follows from offset 0
FlippedOnScan == hist.flip.some /\ hist.flip.entry.pos.rollover = hist.durEnd.rollover

\* the entries on the device before the one that was changed
BeforeFlipped == { e \in hist.live : PosLess(e.pos, hist.flip.entry.pos) }

C24_HeadStopsAtCorruptEntry ==
    (st = "open" /\ it.live /\ FlippedOnScan /\ hist.rejects = 0) =>
        /\ head = hist.flip.entry.pos
        /\ hist.flip.entry.pos = Pos(0, 0) => (tail = Pos(0, 0) /\ it.current = it.end)
        /\ \A i \in 1..Len(yielded) :
              yielded[i].k # "none" =>
                 /\ yielded[i].k = "ok"
                 /\ Entry(yielded[i].pos, yielded[i].data) \in BeforeFlipped


(***************************************************************************)
(* C25: append never overwrites a live entry: no write of an append (the   *)
(* entry or the pad-out) covers a block of an entry at a position p with   *)
(* tail <= p < head; when the ring has no free block between head and      *)
(* tail, append fails instead.                                              *)
(***************************************************************************)
\* the write w covers a block of the entry e
Overwrites(w, e) ==
    /\ WriteFrom(w) < e.pos.offset + EntryBlocks(e)
    /\ e.pos.offset < WriteTo(w)

\* the entries on the device that were live when the last call began
LiveBefore ==
    { e \in hist.live : PosGeq(e.pos, tail) /\ PosLess(e.pos, last.preHead) }

C25_NoLiveEntryOverwritten ==
    (AppendReturned /\ hist.rejects = 0) =>
        \A i \in 1..Len(last.writes), e \in LiveBefore : ~Overwrites(last.writes[i], e)


(***************************************************************************)
(* C26: open never fails because of what the device holds: a header that   *)
(* is invalid, torn or garbage (one whose len reaches past the end of the  *)
(* device included) ends the head scan or is skipped by the tail scan, and *)
(* open returns a Wal and an iterator.                                      *)
(***************************************************************************)
C26_OpenNeverFailsOnContents ==
    last.op = "open" => (last.ret = "ok" /\ st = "open" /\ it.live)


(***************************************************************************)
(* C27: when the recovered head has rollover > 0, the tail scan examines   *)
(* the block offsets o = head.offset, ..., capacity - 1 in increasing      *)
(* order, reads the block at byte o * 4096, and sets                       *)
(* tail = (head.rollover - 1, o) for the first o whose header has          *)
(* rollover = head.rollover - 1 and whose entry, read at offset o, passes  *)
(* its CRC check.                                                           *)
(***************************************************************************)
\* the block at offset o begins an entry of rollover r that is whole
ValidEntryAt(o, r) ==
    /\ ReadHeader(file, o * BLOCK_SIZE).rollover = r
    /\ CanRead(file, o * BLOCK_SIZE, HEADER_SIZE + ReadHeader(file, o * BLOCK_SIZE).len)
    /\ compute_crc(ReadHeader(file, o * BLOCK_SIZE).len,
                   Slice(file, o * BLOCK_SIZE,
                         HEADER_SIZE + ReadHeader(file, o * BLOCK_SIZE).len))
         = ReadHeader(file, o * BLOCK_SIZE).crc

\* the candidates of the tail scan: offsets from head.offset on
TailCandidates ==
    { o \in head.offset..(capacity - 1) : ValidEntryAt(o, head.rollover - 1) }

C27_TailIsFirstCandidate ==
    (JustOpened /\ hist.rejects = 0 /\ head.rollover > 0) =>
        \A o \in TailCandidates :
            (\A p \in TailCandidates : o <= p) => tail = Pos(head.rollover - 1, o)


(***************************************************************************)
(* C28: the fallback of the tail scan.  As stated: when phase B finds no   *)
(* candidate, tail stays (head.rollover - 1, head.offset) and the iterator *)
(* open returned, from that tail to head, yields nothing.                   *)
(***************************************************************************)
\* open returned a Wal whose head has wrapped, and no offset from
\* head.offset on holds a whole entry of the previous rollover
TailFallback ==
    /\ st = "open" /\ it.live
    /\ hist.rejects = 0
    /\ head.rollover > 0
    /\ TailCandidates = {}

\* (on a log whose recovered head is the end of the last entry written)
C28_FallbackIteratesNothing ==
    (TailFallback /\ head = hist.durEnd) =>
        /\ tail = Pos(head.rollover - 1, head.offset)
        /\ \A i \in 1..Len(yielded) : yielded[i].k = "none"

\* C28 amended: when phase B finds no candidate, tail stays
\* (head.rollover - 1, head.offset) and the iterator open returned runs
\* from that tail to head, one full turn of the ring: the first call of
\* next does not return end-of-iteration, it returns an item read from the
\* block at head.offset.
C28_FallbackIteratesFullTurn ==
    TailFallback =>
        /\ tail = Pos(head.rollover - 1, head.offset)
        /\ it.end = head
        /\ yielded = << >> => it.current = tail
        /\ yielded # << >> => (yielded[1].at = tail /\ yielded[1].k # "none")

\* the first call of next after a fallback returned an item, on a ring
\* whose blocks from head.offset on are the zeros of a pad-out
C28_Witness ==
    /\ TailFallback
    /\ yielded # << >>
    /\ yielded[1].k = "ok"
    /\ head.offset < capacity
    /\ Slice(file, byte_offset(head), BLOCK_SIZE) = Zeros(BLOCK_SIZE)


(***************************************************************************)
(* C29: a crash between the pad-out and the new entry.  As stated: when    *)
(* the pad-out write of a wrapping append is on the device and the entry   *)
(* at offset 0 of the new rollover is not, open stops phase A at offset 0  *)
(* on a zero header and reports head = (rollover, 0) for the new rollover  *)
(* and tail = (rollover - 1, 0), the offset the tail scan starts at.       *)
(***************************************************************************)
\* open has returned, and the last write the device performed is a pad-out:
\* the entry that followed it was lost with the process
OpenedAfterPad == last.op = "open" /\ hist.pad.some /\ hist.rejects = 0

LastTooLarge ==
    AppendReturned /\ AlignedBlocks(ByteLen(last.data) + HEADER_SIZE) > capacity

C30_OversizeAppendRejected ==
    /\ (LastTooLarge /\ hist.rejects = 0) =>
          /\ last.ret = "invalid"
          /\ last.writes = << >>
          /\ head = last.preHead
    /\ (AppendReturned /\ hist.rejects = 0) => head.offset <= capacity


(***************************************************************************)
(* C31: every entry header append hands to the device has len > 0: an      *)
(* append of an empty payload is rejected, with no write handed to the     *)
(* device, so no header with len = 0 is stored and the head scan of open   *)
(* reaches every entry appended after it.                                  *)
(***************************************************************************)
\* the len field of the header in the buffer of a submission
SubmittedLen(w) == ReadHeader(w.data, 0).len

\* the entries stored whole that the head scan of open did not reach
Unreached == { e \in hist.live : PosGeq(e.pos, head) }

C31_EmptyAppendRejected ==
    /\ \A i \in 1..Len(inflight) :
          inflight[i].notify => SubmittedLen(inflight[i]) > 0
    /\ (AppendReturned /\ last.data = << >>) =>
          (last.ret # "ok" /\ last.writes = << >>)
    /\ (JustOpened /\ hist.rejects = 0 /\ head.rollover = 0) =>
          \A e \in Unreached : e.pos.offset + EntryBlocks(e) >= capacity


(***************************************************************************)
(* C32: completion liveness.  Every write a device accepted with           *)
(* notify = true and carried out with success is eventually yielded by a   *)
(* drain, when the caller keeps draining; this covers the request of the   *)
(* event-queue device that a drain found still in progress, and the        *)
(* submission queued on the channel of the thread-offload device.          *)
(***************************************************************************)
LivePositions == { Pos(r, o) : r \in 0..MaxRollover, o \in 0..MaxCapacity }

\* the write append returned p for has been carried out with success
WrittenOk(p) ==
    /\ p \in obs.accepted
    /\ \E i \in 1..Len(obs.done) :
          obs.done[i].pos = p /\ obs.done[i].notify /\ obs.done[i].ok

Drained(p) == p \in Range(obs.drained)

C32_CompletionsEventuallyYielded ==
    \A p \in LivePositions : WrittenOk(p) ~> Drained(p)


(***************************************************************************)
(* C33: the tail is never greater than the head: after any appends and     *)
(* truncates, a truncate of a position beyond the head included,           *)
(* tail <= head in the position order.                                     *)
(***************************************************************************)
C33_TailNeverAheadOfHead ==
    (st = "open" /\ hist.rejects = 0) => PosGeq(head, tail)


(***************************************************************************)
(* C34: the in-memory device behaves like a flat array of capacity blocks: *)
(* after any successful writes, of one block or several, overlapping or    *)
(* not, a read of a block returns the bytes last written to that block,    *)
(* and zeros when it was never written.                                    *)
(***************************************************************************)
\* the block at the position in the flat array
FlatBlock(pos) == Slice(file, byte_offset(pos), BLOCK_SIZE)

C34_MemReadsLikeFlatArray ==
    last.op = "read" => (last.ret = "ok" /\ last.data = FlatBlock(last.pos))

====
